---- MODULE Spec2Model ----
(***************************************************************************)
(* Verification model of the streaming repository-analysis pipeline.       *)
(*                                                                         *)
(* Producer: the /api/analyze endpoint of the backend                      *)
(*   (analyzeRepoRequestHandler, runAnalysis, performStreamingTask,        *)
(*   sendEvent).  One analysis request is followed from the arrival of the *)
(*   request to the end of the response.  Every await of the source is a   *)
(*   suspension point and the code between two awaits is one action.       *)
(*                                                                         *)
(* Consumer: the read loop of analyzeRepositoryStream in the browser       *)
(*   (buffering, splitting on newline, trimming, JSON parsing).            *)
(*                                                                         *)
(* Tree walker: fetchAllFilePaths and streamAllFilePaths in the browser,   *)
(*   with fetchFolderContents and sortNodes.                               *)
(*                                                                         *)
(* Application: appReducer and the handlers of App (handleFetchFiles,      *)
(*   handleExpandFolder, handleStartReview, handleStartRepoAnalysis), with *)
(*   TreeNode.handleToggle and the effect of CodeReviewer.                 *)
(***************************************************************************)
EXTENDS Integers, Sequences, FiniteSets, TLC

VARIABLES
    \* ---- producer (backend) ----
    pc,                     \* position of the request handler / runAnalysis
    request,                \* the request body, by what runAnalysis makes of it
    bodyRead,               \* some part of the body has been read (body += chunk has run)
    reqErrored,             \* the request stream has emitted 'error'
    res,                    \* the response: events handed to res.write, writableEnded, calls of res.end
    MAX_CONTEXT_CHAR_LIMIT, \* the character budget of the corpus
    pathIdx,                \* position of the for-of loop over paths
    fileContentsString,     \* the corpus, as the sequence of FILE records appended to it
    totalChars,
    filesIncludedCount,
    fetchLog,               \* outcome of every fetchFileContent call so far, in order
    taskIdx,                \* position of the for-of loop over tasks
    chunksSeen,             \* task_chunk events sent in this request
    \* ---- consumer (browser) ----
    wire,                   \* the bytes of the response body
    delivered,              \* how many of them reader.read() has returned so far
    buffer,                 \* the consumer's buffer
    yielded,                \* the events the generator has yielded so far
    readerDone,             \* reader.read() has returned done
    splitSeen,              \* some read has ended in the middle of a line
    \* ---- tree walker (browser) ----
    walkFn,                 \* the walker that runs: fetchAllFilePaths or streamAllFilePaths
    walkPc,                 \* its position
    contents,               \* the repository on GitHub: the items of each folder
    initialTree,            \* the walker's argument
    foldersToScan,
    scannedPaths,
    allPaths,               \* the paths pushed (fetchAllFilePaths) or yielded (streamAllFilePaths)
    walkNode,               \* the folder whose listing is awaited
    listings,               \* every fetchFolderContents call of the walker, with its outcome
    progress,               \* the messages handed to onProgress
    walkResult,             \* the value fetchAllFilePaths returns
    \* ---- application (browser) ----
    state,                  \* the AppState held by useReducer(appReducer, initialState)
    isOpen,                 \* the folders whose TreeNode has isOpen set
    expansions,             \* every handleExpandFolder call that sent a request, with its outcome
    loads,                  \* every handleFetchFiles call that sent a request, with its outcome
    runs,                   \* every handleStartRepoAnalysis call, with its position
    review,                 \* the handleStartReview call in progress
    reviewStates,           \* CodeReviewer: the review state of each file
    reviewsStarted          \* CodeReviewer: the files runReview was called for

serverVars == <<pc, request, bodyRead, reqErrored, res, MAX_CONTEXT_CHAR_LIMIT, pathIdx,
                fileContentsString, totalChars, filesIncludedCount, fetchLog, taskIdx,
                chunksSeen>>
clientVars == <<wire, delivered, buffer, yielded, readerDone, splitSeen>>
walkVars == <<walkFn, walkPc, contents, initialTree, foldersToScan, scannedPaths, allPaths,
              walkNode, listings, progress, walkResult>>
appVars == <<state, isOpen, expansions, loads, runs, review, reviewStates, reviewsStarted>>
vars == <<serverVars, clientVars, walkVars, appVars>>

(***************************************************************************)
(* Bounds of the model.                                                    *)
(***************************************************************************)
MaxPaths == 2        \* longest path list of a request
MaxSize == 1         \* longest file content, in characters
MaxBudget == 1       \* largest character budget
MaxChunks == 1       \* chunks with text the engine delivers during one request
MaxLines == 2        \* complete lines on the wire of the consumer

(***************************************************************************)
(* Events (the objects handed to sendEvent).                               *)
(***************************************************************************)
NoError == "undefined"      \* task_end without an error property

Event(type, id, path, n, err) ==
    [type |-> type, id |-> id, path |-> path, n |-> n, err |-> err]

SystemEvent(msg, n) == Event("system", msg, 0, n, NoError)
ProcessingFile(path, len, err) == Event("processing_file", "", path, len, err)
TaskStart(id) == Event("task_start", id, 0, 0, NoError)
TaskChunk(id) == Event("task_chunk", id, 0, 0, NoError)
TaskEnd(id, err) == Event("task_end", id, 0, 0, err)
ErrorEvent(msg) == Event("error", "", 0, 0, msg)

\* the ids of the tasks array of runAnalysis, in order
tasks == <<"summary", "tech_stack", "architecture", "error_trends", "suggestions">>

NumTasks == Len(tasks)

\* What an engine failure can look like to the catch of performStreamingTask:
\* an Error with a message, an Error whose message is empty, a thrown non-Error.
EngineErrors == {"engine failure", "", "<non-Error>"}

\* error instanceof Error ? error.message : 'An unknown error occurred'
ErrorMessage(error) ==
    IF error = "<non-Error>" THEN "An unknown error occurred" ELSE error

(***************************************************************************)
(* The response object.                                                    *)
(*   sent          every event handed to res.write, in order               *)
(*   wireLen       how many of them were written before the response ended *)
(*                 (the response body is SubSeq(sent, 1, wireLen))         *)
(*   writableEnded res.writableEnded                                       *)
(*   endCalls      number of calls of res.end()                            *)
(***************************************************************************)
NewResponse == [sent |-> <<>>, wireLen |-> 0, writableEnded |-> FALSE, endCalls |-> 0]

\* res.write(`EVENT: ${JSON.stringify(event)}\n`): a write after end is not delivered
sendEvent(r, event) ==
    [r EXCEPT !.sent = Append(@, event),
              !.wireLen = IF r.writableEnded THEN @ ELSE @ + 1]

\* res.end()
ResEnd(r) == [r EXCEPT !.writableEnded = TRUE, !.endCalls = @ + 1]

\* variant: res.end() without the writableEnded guard
EndUnguarded(r) == ResEnd(r)

\* if (!res.writableEnded) res.end();
EndIfOpen(r) == IF ~r.writableEnded THEN ResEnd(r) ELSE r

\* the catch and finally blocks of runAnalysis
CatchFatal(r, msg) == EndIfOpen(sendEvent(r, ErrorEvent(msg)))

Wire(r) == SubSeq(r.sent, 1, r.wireLen)

(***************************************************************************)
(* The request.  JSON.parse(body) and the checks that follow it are        *)
(* modelled by their outcome:                                              *)
(*   malformed  JSON.parse throws (an empty body included)                 *)
(*   missing    repoUrl or paths is missing, or paths is no array          *)
(*   badurl     parseGitHubUrl returns null                                *)
(*   ok         the body names a repository and a list of paths            *)
(***************************************************************************)
PathLists == {[i \in 1..n |-> i] : n \in 0..MaxPaths}

Requests ==
    {[kind |-> k, paths |-> <<>>] : k \in {"malformed", "missing"}}
    \cup {[kind |-> k, paths |-> p] : k \in {"badurl", "ok"}, p \in PathLists}

\* fetchFileContent: throws (status not ok, unsupported encoding, aborted by the
\* timeout) or returns the decoded text, '' for a file of size 0
FetchOutcomes ==
    {[ok |-> FALSE, len |-> 0]} \cup {[ok |-> TRUE, len |-> n] : n \in 0..MaxSize}

(***************************************************************************)
(* Producer, pure parts.                                                   *)
(***************************************************************************)
\* variant: the limit test without filesIncludedCount > 0
LimitIgnoresFirstFile(count, total, len, limit) == total + len > limit

\* variant: the limit test lets one character too many through
LimitOffByOne(count, total, len, limit) == count > 0 /\ total + len > limit + 1

\* filesIncludedCount > 0 && totalChars + content.length > MAX_CONTEXT_CHAR_LIMIT
ExceedsLimit(count, total, len, limit) == count > 0 /\ total + len > limit

\* variant: the catch block sends nothing
CatchFetchErrorSilent(r, path) == r

\* the catch block of the loop over paths: a processing_file event whose content
\* is the error text
CatchFetchError(r, path) == sendEvent(r, ProcessingFile(path, 0, "Error fetching content"))

\* the paths of the model are one character long
PathLength(path) == 1

\* the length of `// FILE: ${path}\n${content}\n\n---\n\n`
FileRecordLength(path, len) == 9 + PathLength(path) + 1 + len + 7

\* variant: the handler writes nothing before it registers its listeners
NoFirstEvent(r) == r

\* the first write of analyzeRepoRequestHandler
FirstEvent(r) == sendEvent(r, SystemEvent("Backend connection established", 0))

\* variant: the catch block rethrows without sending task_end
CatchDropsTaskEnd(r, id, error) == r

\* the catch block of performStreamingTask, up to its throw
CatchTaskError(r, id, error) == sendEvent(r, TaskEnd(id, ErrorMessage(error)))

\* task i has streamed to its end: the rest of performStreamingTask, and the loop
\* of runAnalysis up to the next await (the next task's task_start, or the finally)
NextTask(r, i) ==
    IF i < NumTasks THEN sendEvent(r, TaskStart(tasks[i + 1])) ELSE EndIfOpen(r)

\* variant: the next task is started before the task_end of the current one is sent
FinishTaskLate(r, i) ==
    IF i < NumTasks
    THEN sendEvent(NextTask(r, i), TaskEnd(tasks[i], NoError))
    ELSE NextTask(sendEvent(r, TaskEnd(tasks[i], NoError)), i)

FinishTask(r, i) == NextTask(sendEvent(r, TaskEnd(tasks[i], NoError)), i)

(***************************************************************************)
(* Producer, actions.                                                      *)
(***************************************************************************)
ServerInit ==
    /\ pc = "idle"
    /\ request \in Requests
    /\ bodyRead = FALSE
    /\ reqErrored = FALSE
    /\ res = NewResponse
    /\ MAX_CONTEXT_CHAR_LIMIT \in 0..MaxBudget
    /\ pathIdx = 0
    /\ fileContentsString = <<>>
    /\ totalChars = 0
    /\ filesIncludedCount = 0
    /\ fetchLog = <<>>
    /\ taskIdx = 0
    /\ chunksSeen = 0

\* analyzeRepoRequestHandler: first event, flush, then the listeners are registered
analyzeRepoRequestHandler ==
    /\ pc = "idle"
    /\ res' = FirstEvent(res)
    /\ pc' = "receiving"
    /\ UNCHANGED <<request, bodyRead, reqErrored, MAX_CONTEXT_CHAR_LIMIT, pathIdx,
                   fileContentsString, totalChars, filesIncludedCount, fetchLog,
                   taskIdx, chunksSeen, clientVars, walkVars, appVars>>

\* req.on('data'): body += chunk.toString(), any number of times
ReqOnData ==
    /\ pc = "receiving"
    /\ bodyRead' = TRUE
    /\ UNCHANGED <<pc, request, reqErrored, res, MAX_CONTEXT_CHAR_LIMIT, pathIdx,
                   fileContentsString, totalChars, filesIncludedCount, fetchLog,
                   taskIdx, chunksSeen, clientVars, walkVars, appVars>>

\* req.on('end'): setTimeout(() => runAnalysis(res, body), 100).  A body that
\* arrived in no 'data' event at all is empty, and JSON.parse('') throws.
ReqOnEnd ==
    /\ pc = "receiving"
    /\ request.kind # "malformed" => bodyRead
    /\ pc' = "timer"
    /\ UNCHANGED <<request, bodyRead, reqErrored, res, MAX_CONTEXT_CHAR_LIMIT, pathIdx,
                   fileContentsString, totalChars, filesIncludedCount, fetchLog,
                   taskIdx, chunksSeen, clientVars, walkVars, appVars>>

\* req.on('error'): the request stream fails (the client went away).  It can happen
\* while the body is still arriving, and then 'end' never comes, or at any later
\* point while runAnalysis is suspended in an await.
ReqOnError ==
    /\ pc # "idle"
    /\ ~reqErrored
    /\ reqErrored' = TRUE
    /\ res' = EndIfOpen(sendEvent(res, ErrorEvent("request")))
    /\ pc' = IF pc = "receiving" THEN "aborted" ELSE pc
    /\ UNCHANGED <<request, bodyRead, MAX_CONTEXT_CHAR_LIMIT, pathIdx,
                   fileContentsString, totalChars, filesIncludedCount, fetchLog,
                   taskIdx, chunksSeen, clientVars, walkVars, appVars>>

\* runAnalysis from the end of the for-of loop over paths (line 172) to its next
\* await: the corpus-empty return, or the first task's task_start
AfterFetchLoop(r) ==
    IF totalChars = 0 /\ Len(request.paths) > 0
    THEN /\ res' = EndIfOpen(sendEvent(r, SystemEvent("Could not fetch content for any files", 0)))
         /\ pc' = "done"
         /\ taskIdx' = taskIdx
    ELSE /\ res' = sendEvent(sendEvent(r, SystemEvent("Context built", filesIncludedCount)),
                             TaskStart(tasks[1]))
         /\ pc' = "generate"
         /\ taskIdx' = 1

\* the timer fires: runAnalysis up to its first await
runAnalysis ==
    /\ pc = "timer"
    /\ IF request.kind \in {"malformed", "missing"}
       THEN /\ res' = CatchFatal(res, request.kind)
            /\ pc' = "done"
            /\ UNCHANGED <<pathIdx, taskIdx>>
       ELSE LET r1 == sendEvent(res, SystemEvent("Received file paths", Len(request.paths)))
                r2 == sendEvent(r1, SystemEvent("Fetching repository files", 0))
            IN  IF request.kind = "badurl"
                THEN /\ res' = CatchFatal(r1, "Invalid GitHub URL provided.")
                     /\ pc' = "done"
                     /\ UNCHANGED <<pathIdx, taskIdx>>
                ELSE IF Len(request.paths) = 0
                THEN /\ AfterFetchLoop(r2)
                     /\ UNCHANGED pathIdx
                ELSE /\ res' = r2
                     /\ pc' = "fetch"
                     /\ pathIdx' = 1
                     /\ UNCHANGED taskIdx
    /\ UNCHANGED <<request, bodyRead, reqErrored, MAX_CONTEXT_CHAR_LIMIT,
                   fileContentsString, totalChars, filesIncludedCount, fetchLog,
                   chunksSeen, clientVars, walkVars, appVars>>

\* await fetchFileContent(...) settles: the body of the loop up to the delay,
\* or, on break, the code after the loop
FetchSettles ==
    /\ pc = "fetch"
    /\ \E out \in FetchOutcomes :
        LET path == request.paths[pathIdx] IN
        /\ fetchLog' = Append(fetchLog, out)
        /\ IF ~out.ok
           THEN /\ res' = CatchFetchError(res, path)
                /\ pc' = "delay"
                /\ UNCHANGED <<fileContentsString, totalChars, filesIncludedCount, taskIdx>>
           ELSE IF ExceedsLimit(filesIncludedCount, totalChars, out.len, MAX_CONTEXT_CHAR_LIMIT)
           THEN /\ AfterFetchLoop(sendEvent(res, SystemEvent("Context limit reached", filesIncludedCount)))
                /\ UNCHANGED <<fileContentsString, totalChars, filesIncludedCount>>
           ELSE /\ res' = sendEvent(res, ProcessingFile(path, out.len, NoError))
                /\ fileContentsString' = Append(fileContentsString, [path |-> path, len |-> out.len])
                /\ totalChars' = totalChars + out.len
                /\ filesIncludedCount' = filesIncludedCount + 1
                /\ pc' = "delay"
                /\ UNCHANGED taskIdx
    /\ UNCHANGED <<request, bodyRead, reqErrored, MAX_CONTEXT_CHAR_LIMIT, pathIdx, chunksSeen, clientVars, walkVars, appVars>>

\* the 50 ms delay at the end of the loop body elapses
DelayElapses ==
    /\ pc = "delay"
    /\ IF pathIdx < Len(request.paths)
       THEN /\ pathIdx' = pathIdx + 1
            /\ pc' = "fetch"
            /\ UNCHANGED <<res, taskIdx>>
       ELSE /\ AfterFetchLoop(res)
            /\ UNCHANGED pathIdx
    /\ UNCHANGED <<request, bodyRead, reqErrored, MAX_CONTEXT_CHAR_LIMIT,
                   fileContentsString, totalChars, filesIncludedCount, fetchLog, chunksSeen, clientVars, walkVars, appVars>>

\* await ai.models.generateContentStream(...) resolves
GenerateResolves ==
    /\ pc = "generate"
    /\ pc' = "streaming"
    /\ UNCHANGED <<request, bodyRead, reqErrored, res, MAX_CONTEXT_CHAR_LIMIT, pathIdx,
                   fileContentsString, totalChars, filesIncludedCount, fetchLog,
                   taskIdx, chunksSeen, clientVars, walkVars, appVars>>

\* the engine call rejects, or the response stream throws in the middle:
\* catch of performStreamingTask, throw, catch and finally of runAnalysis
EngineThrows ==
    /\ pc \in {"generate", "streaming"}
    /\ \E error \in EngineErrors :
        res' = CatchFatal(CatchTaskError(res, tasks[taskIdx], error), ErrorMessage(error))
    /\ pc' = "done"
    /\ UNCHANGED <<request, bodyRead, reqErrored, MAX_CONTEXT_CHAR_LIMIT, pathIdx,
                   fileContentsString, totalChars, filesIncludedCount, fetchLog,
                   taskIdx, chunksSeen, clientVars, walkVars, appVars>>

\* for await (const chunk of responseStream): if (chunk.text) sendEvent(task_chunk).
\* A chunk without text changes nothing.
StreamChunk ==
    /\ pc = "streaming"
    /\ \E hasText \in BOOLEAN :
        IF hasText
        THEN /\ chunksSeen < MaxChunks
             /\ chunksSeen' = chunksSeen + 1
             /\ res' = sendEvent(res, TaskChunk(tasks[taskIdx]))
        ELSE UNCHANGED <<res, chunksSeen>>
    /\ UNCHANGED <<pc, request, bodyRead, reqErrored, MAX_CONTEXT_CHAR_LIMIT, pathIdx,
                   fileContentsString, totalChars, filesIncludedCount, fetchLog, taskIdx,
                   clientVars, walkVars, appVars>>

\* the response stream of the engine is exhausted
StreamEnds ==
    /\ pc = "streaming"
    /\ res' = FinishTask(res, taskIdx)
    /\ IF taskIdx < NumTasks
       THEN /\ taskIdx' = taskIdx + 1
            /\ pc' = "generate"
       ELSE /\ pc' = "done"
            /\ UNCHANGED taskIdx
    /\ UNCHANGED <<request, bodyRead, reqErrored, MAX_CONTEXT_CHAR_LIMIT, pathIdx,
                   fileContentsString, totalChars, filesIncludedCount, fetchLog, chunksSeen, clientVars, walkVars, appVars>>

\* fetchWithTimeout clears its timer as soon as the response headers are there:
\* the body read by res.json() that follows has no timeout, and a body that never
\* arrives leaves fetchFileContent pending for ever
FetchBodyStalls ==
    /\ pc = "fetch"
    /\ pc' = "hung"
    /\ UNCHANGED <<request, bodyRead, reqErrored, res, MAX_CONTEXT_CHAR_LIMIT, pathIdx,
                   fileContentsString, totalChars, filesIncludedCount, fetchLog,
                   taskIdx, chunksSeen, clientVars, walkVars, appVars>>

\* ai.models.generateContentStream and the iteration of its stream carry no
\* timeout: an engine that never answers leaves performStreamingTask pending
EngineStalls ==
    /\ pc \in {"generate", "streaming"}
    /\ pc' = "hung"
    /\ UNCHANGED <<request, bodyRead, reqErrored, res, MAX_CONTEXT_CHAR_LIMIT, pathIdx,
                   fileContentsString, totalChars, filesIncludedCount, fetchLog,
                   taskIdx, chunksSeen, clientVars, walkVars, appVars>>

ServerNext ==
    \/ analyzeRepoRequestHandler
    \/ ReqOnData
    \/ ReqOnEnd
    \/ ReqOnError
    \/ runAnalysis
    \/ FetchSettles
    \/ DelayElapses
    \/ GenerateResolves
    \/ EngineThrows
    \/ StreamChunk
    \/ StreamEnds
    \/ FetchBodyStalls
    \/ EngineStalls

ClientIdle ==
    /\ wire = <<>>
    /\ delivered = 0
    /\ buffer = <<>>
    /\ yielded = <<>>
    /\ readerDone = FALSE
    /\ splitSeen = FALSE

\* no tree walk is running
WalkerIdle ==
    /\ walkFn = "none"
    /\ walkPc = "idle"
    /\ initialTree = <<>>
    /\ foldersToScan = <<>>
    /\ scannedPaths = {}
    /\ allPaths = <<>>
    /\ walkNode = <<>>
    /\ listings = <<>>
    /\ progress = <<>>
    /\ walkResult = <<>>

WalkIdle == WalkerIdle /\ contents = <<>>

\* the application is not running
AppIdle ==
    /\ state = <<>>
    /\ isOpen = {}
    /\ expansions = <<>>
    /\ loads = <<>>
    /\ runs = <<>>
    /\ review = <<>>
    /\ reviewStates = <<>>
    /\ reviewsStarted = <<>>

Init == ServerInit /\ ClientIdle /\ WalkIdle /\ AppIdle

Next == ServerNext

\* One analysis request served by the backend.
Spec == Init /\ [][Next]_vars

\* The steps the backend takes by itself once runAnalysis is scheduled: timers
\* fire, and a call that settles is followed by the code that awaits it.  The
\* request stream need not fail, so ReqOnError is not among them.
ServerProgress ==
    \/ runAnalysis
    \/ FetchSettles
    \/ DelayElapses
    \/ GenerateResolves
    \/ EngineThrows
    \/ StreamChunk
    \/ StreamEnds
    \/ FetchBodyStalls
    \/ EngineStalls

\* One analysis request served by a backend that keeps running.
SpecFair == Spec /\ WF_vars(ServerProgress)

(***************************************************************************)
(* Properties of the producer.                                             *)
(***************************************************************************)
Sent == res.sent

\* positions of the events of one type and task id among the events sent
Positions(type, id) == {i \in DOMAIN Sent : Sent[i].type = type /\ Sent[i].id = id}

FailedEnds(id) == {i \in Positions("task_end", id) : Sent[i].err # NoError}
CleanEnds(id) == {i \in Positions("task_end", id) : Sent[i].err = NoError}

IsTaskEvent(e) == e.type \in {"task_start", "task_chunk", "task_end"}

\* the task events among the events sent, in the order they were written
TaskEvents == SelectSeq(Sent, IsTaskEvent)

\* performStreamingTask of task j has returned or thrown
TaskOver(j) == taskIdx > j \/ (taskIdx = j /\ pc = "done")

RECURSIVE SumLen(_)
SumLen(records) ==
    IF records = <<>> THEN 0 ELSE records[1].len + SumLen(Tail(records))

\* C1: when the engine call of task k fails, task_end(k) carries an error, every
\* later task still gets its task_start and a task_end without error, the earlier
\* tasks keep their task_end without error, and the stream then ends.
C1_FailureIsolation ==
    \A k \in 1..NumTasks :
        (pc = "done" /\ ~reqErrored /\ filesIncludedCount > 0 /\ FailedEnds(tasks[k]) # {}) =>
            /\ \A j \in (k + 1)..NumTasks :
                  Positions("task_start", tasks[j]) # {} /\ CleanEnds(tasks[j]) # {}
            /\ \A j \in 1..(k - 1) : CleanEnds(tasks[j]) # {}
            /\ res.writableEnded

\* C3: for every task id, task_start is written before every task_chunk (and the
\* task_end) of the id, no task_chunk and no second task_end of the id follows its
\* task_end, and once performStreamingTask is over (returned or thrown) exactly
\* one task_end has been written for it.
C3_TaskEventOrder ==
    LET T == TaskEvents IN
    /\ \A i \in DOMAIN T :
          /\ T[i].type \in {"task_chunk", "task_end"} =>
                \E st \in 1..(i - 1) : T[st].type = "task_start" /\ T[st].id = T[i].id
          /\ T[i].type = "task_end" =>
                \A k \in (i + 1)..Len(T) :
                    T[k].id = T[i].id => T[k].type \notin {"task_chunk", "task_end"}
    /\ \A j \in 1..NumTasks :
          (TaskOver(j) /\ \E i \in DOMAIN T : T[i] = TaskStart(tasks[j])) =>
              \E i \in DOMAIN T : T[i].type = "task_end" /\ T[i].id = tasks[j]

\* a task that streamed a chunk and then failed, after a task that succeeded
C3_Witness ==
    /\ pc = "done"
    /\ CleanEnds(tasks[1]) # {}
    /\ Positions("task_chunk", tasks[2]) # {}
    /\ FailedEnds(tasks[2]) # {}

\* C4: tasks never interleave: between task_start(X) and task_end(X) no task_start
\* and no task_chunk of another id is written, and task_start of task i+1 is
\* written only after task_end of task i.
C4_NoInterleaving ==
    LET T == TaskEvents IN
    \A i \in DOMAIN T :
        T[i].type = "task_start" =>
            /\ \A j \in (i + 1)..Len(T) :
                  (T[j].type \in {"task_start", "task_chunk"} /\ T[j].id # T[i].id)
                  => \E e \in (i + 1)..(j - 1) :
                        T[e].type = "task_end" /\ T[e].id = T[i].id
            /\ \A t \in 1..(NumTasks - 1) :
                  T[i].id = tasks[t + 1] =>
                      \E e \in 1..(i - 1) : T[e].type = "task_end" /\ T[e].id = tasks[t]

\* the second task has started after a first task that streamed a chunk
C4_Witness ==
    /\ Positions("task_chunk", tasks[1]) # {}
    /\ Positions("task_start", tasks[2]) # {}

AllFetchesOk == \A i \in DOMAIN fetchLog : fetchLog[i].ok

RECURSIVE CorpusLength(_)
CorpusLength(records) ==
    IF records = <<>> THEN 0
    ELSE FileRecordLength(records[1].path, records[1].len) + CorpusLength(Tail(records))

\* C13 (as stated): when the corpus handed to the tasks holds more than one file,
\* the length of the corpus string, headers and separators included, does not
\* exceed the budget.
C13_CorpusStringWithinBudget ==
    (taskIdx >= 1 /\ Len(fileContentsString) > 1) =>
        CorpusLength(fileContentsString) <= MAX_CONTEXT_CHAR_LIMIT

\* C13 (amended): when the corpus holds more than one file, the contents of its
\* files together do not exceed the budget; totalChars is that sum.
C13_ContentsWithinBudget ==
    Len(fileContentsString) > 1 =>
        /\ totalChars = SumLen(fileContentsString)
        /\ totalChars <= MAX_CONTEXT_CHAR_LIMIT

\* two files that fill the budget exactly are handed to the tasks
C13_Witness ==
    /\ taskIdx >= 1
    /\ Len(fileContentsString) = 2
    /\ totalChars = MAX_CONTEXT_CHAR_LIMIT
    /\ totalChars > 0

\* C14: every network call is guarded by a timeout, so that once runAnalysis is
\* scheduled, for a request that names files, the response is eventually ended.
C14_ResponseEventuallyEnded ==
    (pc = "timer" /\ request.paths # <<>>) ~> res.writableEnded

InCorpus(path) == \E j \in DOMAIN fileContentsString : fileContentsString[j].path = path

\* C16: a failed fetch of a file yields a processing_file event for its path with
\* the error text and leaves the file out of the corpus; the loop goes on: every
\* file fetched successfully, before or after it, is in the corpus unless it is
\* the one the budget stopped the loop at; and an error event is sent only for a
\* request that is refused, a failure of the engine or a failure of the request
\* stream, never for a fetch.
C16_FetchFailureIsLocal ==
    /\ \A i \in DOMAIN fetchLog :
          IF ~fetchLog[i].ok
          THEN /\ \E k \in DOMAIN Sent :
                     Sent[k] = ProcessingFile(request.paths[i], 0, "Error fetching content")
               /\ ~InCorpus(request.paths[i])
          ELSE \/ InCorpus(request.paths[i])
               \/ /\ i = Len(fetchLog)
                  /\ Positions("system", "Context limit reached") # {}
                  /\ totalChars + fetchLog[i].len > MAX_CONTEXT_CHAR_LIMIT
    /\ \A k \in DOMAIN Sent :
          Sent[k].type = "error" =>
              \/ request.kind # "ok" /\ fetchLog = <<>>
              \/ Sent[k].err = "request" /\ reqErrored
              \/ /\ taskIdx >= 1
                 /\ \E error \in EngineErrors : Sent[k].err = ErrorMessage(error)
    /\ pc = "fetch" => Len(fetchLog) = pathIdx - 1
    /\ pc = "delay" => Len(fetchLog) = pathIdx
    /\ (/\ taskIdx >= 1 \/ Positions("system", "Could not fetch content for any files") # {}
        /\ Positions("system", "Context limit reached") = {})
          => Len(fetchLog) = Len(request.paths)

\* the first fetch failed, the second file is in the corpus and the tasks run
C16_Witness ==
    /\ Len(fetchLog) = 2
    /\ ~fetchLog[1].ok
    /\ fetchLog[2].ok
    /\ InCorpus(request.paths[2])
    /\ taskIdx >= 1

\* C6: if no file content was fetched successfully (the empty path list included),
\* no task_start is emitted.
C6_NoTaskOnEmptyCorpus ==
    (\A i \in DOMAIN fetchLog : ~fetchLog[i].ok) =>
        \A i \in DOMAIN Sent : Sent[i].type # "task_start"

\* C7: when the response has ended, all five tasks have emitted task_end or an
\* error event was emitted on the stream before the end.
C7_EndsCompleteOrError ==
    res.writableEnded =>
        \/ \A j \in 1..NumTasks : \E i \in 1..res.wireLen :
              Sent[i].type = "task_end" /\ Sent[i].id = tasks[j]
        \/ \E i \in 1..res.wireLen : Sent[i].type = "error"

\* C8: res.end() is called at most once, and every path that has finished its
\* work has ended the response.
C8_EndedExactlyOnce ==
    /\ res.endCalls <= 1
    /\ res.writableEnded <=> res.endCalls = 1
    /\ pc \in {"done", "aborted"} => res.endCalls = 1

\* the request-stream error handler ended the response and runAnalysis then ran
\* through its finally block
C8_Witness ==
    /\ reqErrored
    /\ pc = "done"
    /\ res.endCalls = 1
    /\ Len(Sent) > res.wireLen

\* C9: the first event on the response is 'Backend connection established', and it
\* is written before any part of the body is read, any file is fetched or any
\* other event is sent.
C9_FirstEventBeforeWork ==
    (bodyRead \/ pc # "idle" \/ fetchLog # <<>> \/ taskIdx > 0 \/ Sent # <<>>) =>
        /\ res.wireLen >= 1
        /\ Sent[1] = SystemEvent("Backend connection established", 0)

\* the body has been read and further events have followed the first one
C9_Witness ==
    /\ bodyRead
    /\ Len(Sent) > 1
    /\ Sent[1] = SystemEvent("Backend connection established", 0)

(***************************************************************************)
(* Consumer: the read loop of analyzeRepositoryStream.                     *)
(* Text is a sequence of characters (one-character strings).  The response *)
(* body is ASCII here, so TextDecoder.decode(value, {stream: true}) returns *)
(* the characters of the bytes read.                                       *)
(***************************************************************************)
NL == "\n"

\* the characters String.prototype.trim removes (those that occur in the model)
IsSpace(c) == c \in {" ", "\t", "\r", "\n"}

Digits == {"0", "1", "2", "3", "4", "5", "6", "7", "8", "9"}

\* 'EVENT: '
EventPrefix == <<"E", "V", "E", "N", "T", ":", " ">>

\* buffer.split('\n')
RECURSIVE Split(_)
Split(s) ==
    IF \A i \in DOMAIN s : s[i] # NL
    THEN <<s>>
    ELSE LET k == CHOOSE i \in DOMAIN s : s[i] = NL /\ \A j \in 1..(i - 1) : s[j] # NL
         IN  <<SubSeq(s, 1, k - 1)>> \o Split(SubSeq(s, k + 1, Len(s)))

RECURSIVE TrimStart(_)
TrimStart(s) == IF s # <<>> /\ IsSpace(s[1]) THEN TrimStart(Tail(s)) ELSE s

RECURSIVE TrimEnd(_)
TrimEnd(s) ==
    IF s # <<>> /\ IsSpace(s[Len(s)]) THEN TrimEnd(SubSeq(s, 1, Len(s) - 1)) ELSE s

\* line.trim()
Trim(s) == TrimEnd(TrimStart(s))

\* trimmedLine.startsWith(prefix)
StartsWith(s, prefix) == Len(s) >= Len(prefix) /\ SubSeq(s, 1, Len(prefix)) = prefix

\* trimmedLine.substring(n)
Substring(s, n) == SubSeq(s, n + 1, Len(s))

(***************************************************************************)
(* JSON.parse, for the JSON texts of the model: a number (digits, without  *)
(* a leading zero), the empty object, and an object with one member whose  *)
(* key is a string and whose value is a number; whitespace is allowed      *)
(* around every token.  Any other text makes JSON.parse throw.  The value  *)
(* parsed is represented by its canonical text (JSON.stringify of it).     *)
(***************************************************************************)
IsNumber(t) ==
    /\ t # <<>>
    /\ \A i \in DOMAIN t : t[i] \in Digits
    /\ Len(t) > 1 => t[1] # "0"

\* "key" ws : ws number
IsMember(t) ==
    /\ Len(t) >= 4
    /\ t[1] = "\""
    /\ \E q \in 2..Len(t) :
          /\ t[q] = "\""
          /\ \A j \in 2..(q - 1) : t[j] \notin {"\"", "\\"} /\ ~IsSpace(t[j])
          /\ LET rest == TrimStart(SubSeq(t, q + 1, Len(t)))
             IN  rest # <<>> /\ rest[1] = ":" /\ IsNumber(TrimStart(Tail(rest)))

MemberText(t) ==
    LET q == CHOOSE q \in 2..Len(t) : t[q] = "\""
        rest == TrimStart(SubSeq(t, q + 1, Len(t)))
    IN  SubSeq(t, 1, q) \o <<":">> \o TrimStart(Tail(rest))

JSONParse(text) ==
    LET t == Trim(text)
        inner == Trim(SubSeq(t, 2, Len(t) - 1))
    IN  IF IsNumber(t) THEN [ok |-> TRUE, value |-> t]
        ELSE IF Len(t) >= 2 /\ t[1] = "{" /\ t[Len(t)] = "}"
        THEN IF inner = <<>> THEN [ok |-> TRUE, value |-> <<"{", "}">>]
             ELSE IF IsMember(inner)
             THEN [ok |-> TRUE, value |-> <<"{">> \o MemberText(inner) \o <<"}">>]
             ELSE [ok |-> FALSE, value |-> <<>>]
        ELSE [ok |-> FALSE, value |-> <<>>]

\* what the generator yields
ParsedEvent(value) == [type |-> "event", tag |-> "", text |-> value]
ClientParseError(line) == [type |-> "error", tag |-> "[CLIENT PARSE ERROR]", text |-> line]
ServerLog(line) == [type |-> "error", tag |-> "[SERVER LOG]", text |-> line]

\* variant: lines that are no parseable event are dropped silently
DropsBadLines(line) ==
    LET trimmedLine == Trim(line) IN
    IF StartsWith(trimmedLine, EventPrefix) /\ JSONParse(Substring(trimmedLine, 7)).ok
    THEN <<ParsedEvent(JSONParse(Substring(trimmedLine, 7)).value)>>
    ELSE <<>>

\* the body of: for (const line of lines) { ... }, as the events it yields
ProcessLine(line) ==
    LET trimmedLine == Trim(line) IN
    IF StartsWith(trimmedLine, EventPrefix)
    THEN LET parsed == JSONParse(Substring(trimmedLine, 7))
         IN  IF parsed.ok THEN <<ParsedEvent(parsed.value)>>
             ELSE <<ClientParseError(trimmedLine)>>
    ELSE IF trimmedLine # <<>> THEN <<ServerLog(trimmedLine)>>
    ELSE <<>>

RECURSIVE ProcessLines(_)
ProcessLines(lines) ==
    IF lines = <<>> THEN <<>> ELSE ProcessLine(lines[1]) \o ProcessLines(Tail(lines))

\* variant: the trailing partial line is not kept
RetainsNothing(lines) == <<>>

\* buffer = lines.pop() || ''
Retained(lines) == lines[Len(lines)]

\* One pass of the while loop for a read that returned chunk: the new buffer and
\* the events yielded
OnRead(buf, chunk) ==
    LET lines == Split(buf \o chunk)
    IN  [buffer |-> Retained(lines),
         events |-> ProcessLines(SubSeq(lines, 1, Len(lines) - 1))]

(***************************************************************************)
(* The response bodies the consumer is run on: up to MaxLines lines, each  *)
(* terminated by a newline, then possibly the beginning of a further line. *)
(***************************************************************************)
SampleLines ==
    { EventPrefix \o <<"1">>,                                   \* EVENT: 1
      EventPrefix \o <<"{", "\"", "a", "\"", ":", "2", "}">>,   \* EVENT: {"a":2}
      EventPrefix \o <<"{">>,                                   \* EVENT: {      (no JSON)
      EventPrefix,                                              \* EVENT:        (no payload)
      <<" ">> \o EventPrefix \o <<" ", "3", "\r">>,             \*  EVENT:  3\r  (padded)
      <<"o", "k">>,                                             \* ok            (no event line)
      <<" ">>,                                                  \* a blank line
      <<>> }                                                    \* an empty line

SampleTails == {<<>>, <<"E", "V">>}

RECURSIVE Bodies(_)
Bodies(n) ==
    IF n = 0 THEN {<<>>}
    ELSE Bodies(n - 1) \cup {b \o l \o <<NL>> : b \in Bodies(n - 1), l \in SampleLines}

ServerIdle ==
    /\ pc = "idle"
    /\ request = [kind |-> "malformed", paths |-> <<>>]
    /\ bodyRead = FALSE
    /\ reqErrored = FALSE
    /\ res = NewResponse
    /\ MAX_CONTEXT_CHAR_LIMIT = 0
    /\ pathIdx = 0
    /\ fileContentsString = <<>>
    /\ totalChars = 0
    /\ filesIncludedCount = 0
    /\ fetchLog = <<>>
    /\ taskIdx = 0
    /\ chunksSeen = 0

StreamInit ==
    /\ ServerIdle
    /\ WalkIdle
    /\ AppIdle
    /\ \E b \in Bodies(MaxLines) : \E t \in SampleTails : wire = b \o t
    /\ delivered = 0
    /\ buffer = <<>>
    /\ yielded = <<>>
    /\ readerDone = FALSE
    /\ splitSeen = FALSE

\* reader.read() returns the next n bytes: one pass of the while loop
ReaderRead ==
    /\ ~readerDone
    /\ \E n \in 1..(Len(wire) - delivered) :
        LET chunk == SubSeq(wire, delivered + 1, delivered + n)
            step == OnRead(buffer, chunk)
        IN  /\ delivered' = delivered + n
            /\ buffer' = step.buffer
            /\ yielded' = yielded \o step.events
            /\ splitSeen' = (splitSeen \/ chunk[n] # NL)
    /\ UNCHANGED <<wire, readerDone, serverVars, walkVars, appVars>>

\* reader.read() returns done: break
ReaderDone ==
    /\ ~readerDone
    /\ delivered = Len(wire)
    /\ readerDone' = TRUE
    /\ UNCHANGED <<wire, delivered, buffer, yielded, splitSeen, serverVars, walkVars, appVars>>

StreamNext ==
    \/ ReaderRead
    \/ ReaderDone

\* The consumer reading one response body, cut into reads in every possible way.
SpecStream == StreamInit /\ [][StreamNext]_vars

(***************************************************************************)
(* Properties of the consumer.                                             *)
(***************************************************************************)
\* the reads that deliver the body one whole line at a time
RECURSIVE LineReads(_)
LineReads(s) ==
    IF s = <<>> THEN <<>>
    ELSE IF \A i \in DOMAIN s : s[i] # NL THEN <<s>>
    ELSE LET k == CHOOSE i \in DOMAIN s : s[i] = NL /\ \A j \in 1..(i - 1) : s[j] # NL
         IN  <<SubSeq(s, 1, k)>> \o LineReads(SubSeq(s, k + 1, Len(s)))

\* what the loop yields for a given sequence of reads, from the buffer buf
RECURSIVE YieldsOf(_, _)
YieldsOf(buf, reads) ==
    IF reads = <<>> THEN <<>>
    ELSE LET step == OnRead(buf, reads[1])
         IN  step.events \o YieldsOf(step.buffer, Tail(reads))

\* the body is a newline-terminated sequence of lines that start with 'EVENT: '
EventLinesOnly(s) ==
    /\ s # <<>>
    /\ s[Len(s)] = NL
    /\ \A i \in 1..Len(LineReads(s)) : StartsWith(LineReads(s)[i], EventPrefix)

\* C2: however the bytes of the body are cut into reads, the consumer yields the
\* events, in the order, that it yields when every read delivers one whole line;
\* for a newline-terminated body of 'EVENT: ' lines that is one event per line.
C2_FramingIndependentOfCuts ==
    readerDone =>
        /\ yielded = YieldsOf(<<>>, LineReads(wire))
        /\ EventLinesOnly(wire) => Len(yielded) = Len(LineReads(wire))

\* a body of two 'EVENT: ' lines was consumed with a read ending inside a line
C2_Witness ==
    /\ readerDone
    /\ splitSeen
    /\ EventLinesOnly(wire)
    /\ Len(yielded) = 2

\* the events without the text of the diagnostic messages
Tags(events) ==
    [i \in DOMAIN events |->
        IF events[i].type = "event" THEN events[i] ELSE [events[i] EXCEPT !.text = <<>>]]

\* the complete lines of a body
CompleteLines(s) == SubSeq(Split(s), 1, Len(Split(s)) - 1)

\* the classification of a line by its raw text
ClaimedLine(line) ==
    IF Trim(line) = <<>> THEN <<>>
    ELSE IF StartsWith(line, EventPrefix)
    THEN IF JSONParse(Substring(line, 7)).ok
         THEN <<ParsedEvent(JSONParse(Substring(line, 7)).value)>>
         ELSE <<ClientParseError(<<>>)>>
    ELSE <<ServerLog(<<>>)>>

RECURSIVE ClaimedLines(_)
ClaimedLines(lines) ==
    IF lines = <<>> THEN <<>> ELSE ClaimedLine(lines[1]) \o ClaimedLines(Tail(lines))

\* C10 (as stated): of the complete, non-blank lines, a line that starts with
\* 'EVENT: ' yields its event if the payload is valid JSON and a
\* [CLIENT PARSE ERROR] event if not; every other line yields a [SERVER LOG]
\* event; each line yields exactly one event and the following lines are processed.
C10_OneEventPerLine ==
    readerDone => Tags(yielded) = ClaimedLines(CompleteLines(wire))

\* the classification of a line by its trimmed text
AmendedLine(line) ==
    LET t == Trim(line) IN
    IF t = <<>> THEN <<>>
    ELSE IF StartsWith(t, EventPrefix)
    THEN IF JSONParse(Substring(t, 7)).ok
         THEN <<ParsedEvent(JSONParse(Substring(t, 7)).value)>>
         ELSE <<ClientParseError(<<>>)>>
    ELSE <<ServerLog(<<>>)>>

RECURSIVE AmendedLines(_)
AmendedLines(lines) ==
    IF lines = <<>> THEN <<>> ELSE AmendedLine(lines[1]) \o AmendedLines(Tail(lines))

\* C10 (amended): the line is classified after trimming: a trimmed line that
\* starts with 'EVENT: ' yields its event if the rest is valid JSON and a
\* [CLIENT PARSE ERROR] event if not; every other line that is not empty after
\* trimming yields a [SERVER LOG] event; each such line yields exactly one event
\* and the following lines are processed.
C10_OneEventPerTrimmedLine ==
    readerDone => Tags(yielded) = AmendedLines(CompleteLines(wire))

\* a line that is no JSON was reported and the line after it was still processed
C10_Witness ==
    /\ readerDone
    /\ Len(yielded) = 2
    /\ yielded[1].tag = "[CLIENT PARSE ERROR]"
    /\ yielded[2].type = "event"

(***************************************************************************)
(* Repository trees.  A path is the sequence of the names on it and a name *)
(* is a number; names compare as numbers (localeCompare).  The children of *)
(* a folder are null until they are loaded.  A file node has no children   *)
(* property: it carries null, which is falsy as well.                      *)
(***************************************************************************)
null == [loaded |-> FALSE, nodes |-> <<>>]

Children(nodes) == [loaded |-> TRUE, nodes |-> nodes]

RepoTreeFile(path) ==
    [type |-> "file", path |-> path, name |-> path[Len(path)], children |-> null]

RepoTreeFolder(path, children) ==
    [type |-> "folder", path |-> path, name |-> path[Len(path)], children |-> children]

\* an item of the contents API: type 'dir' or anything else, path, name
Item(type, path) == [type |-> type, path |-> path]

\* the comparator of sortNodes: a sorts before b
NodeBefore(a, b) ==
    IF a.type # b.type THEN a.type = "folder" ELSE a.name < b.name

\* Array.prototype.sort with that comparator (a stable sort): the element at i goes
\* to the place after the elements that sort before it and the equal ones left of it
sortNodes(nodes) ==
    LET place == [i \in DOMAIN nodes |->
                    1 + Cardinality({j \in DOMAIN nodes :
                                        \/ NodeBefore(nodes[j], nodes[i])
                                        \/ j < i /\ ~NodeBefore(nodes[i], nodes[j])})]
    IN  [k \in DOMAIN nodes |-> nodes[CHOOSE i \in DOMAIN nodes : place[i] = k]]

\* fetchFolderContents after a successful response: contents.map(...), sortNodes
FolderNodes(items) ==
    sortNodes([i \in DOMAIN items |->
                  IF items[i].type = "dir"
                  THEN RepoTreeFolder(items[i].path, null)
                  ELSE RepoTreeFile(items[i].path)])

\* fetchFolderContents: the listing of a folder, or an exception (404, 403, another
\* status, no array, a failed or aborted request)
ListingOutcomes == {"ok", "failed"}

(***************************************************************************)
(* The repositories of the model:                                          *)
(*     /        3 (file)  1/  2/                                           *)
(*     1/       1/1  1/2                                                   *)
(*     2/       2/1/  2/2 ... 2/(n+1)                                      *)
(*     2/1/     2/1/1                                                      *)
(* n + 4 files in all.                                                     *)
(***************************************************************************)
MaxFiles == 98       \* most files of folder 2/

FileLimit == 100     \* the cap on the number of files of fetchAllFilePaths

Repository(n) ==
    (<<>> :> <<Item("file", <<3>>), Item("dir", <<1>>), Item("dir", <<2>>)>>)
    @@ (<<1>> :> <<Item("file", <<1, 1>>), Item("file", <<1, 2>>)>>)
    @@ (<<2>> :> <<Item("dir", <<2, 1>>)>> \o [k \in 1..n |-> Item("file", <<2, k + 1>>)])
    @@ (<<2, 1>> :> <<Item("file", <<2, 1, 1>>)>>)

\* the small repository as a provider answers it that repeats entries: folder 1/
\* twice in the root listing, file 1/1 twice in the listing of 1/
DuplicatedRepository ==
    (<<>> :> <<Item("dir", <<1>>), Item("file", <<3>>), Item("dir", <<1>>), Item("dir", <<2>>)>>)
    @@ (<<1>> :> <<Item("file", <<1, 1>>), Item("file", <<1, 2>>), Item("file", <<1, 1>>)>>)
    @@ Repository(1)

Repositories == {Repository(n) : n \in {1, MaxFiles}} \cup {DuplicatedRepository}

\* the tree the application holds when the walk starts: the root listing, with the
\* children of folder 1/ not loaded yet or loaded by an earlier expansion
RootTrees(c) ==
    LET root == FolderNodes(c[<<>>])
        expanded == [i \in DOMAIN root |->
                        IF root[i].path = <<1>>
                        THEN RepoTreeFolder(<<1>>, Children(FolderNodes(c[<<1>>])))
                        ELSE root[i]]
    IN  {<<>>, root, expanded}

(***************************************************************************)
(* The tree walker.                                                        *)
(***************************************************************************)
Walkers == {"fetchAllFilePaths", "streamAllFilePaths"}

Reverse(seq) == [i \in DOMAIN seq |-> seq[Len(seq) + 1 - i]]

Progress(kind, path) == [kind |-> kind, path |-> path]

\* variant: the safety break never triggers
NoLimit(paths) == FALSE

\* the safety break of fetchAllFilePaths: allPaths.length >= 100
ReachedLimit(paths) == Len(paths) >= FileLimit

\* allPaths.slice(0, 100)
Slice(paths, n) == SubSeq(paths, 1, IF Len(paths) < n THEN Len(paths) ELSE n)

\* the catch block of the walker: streamAllFilePaths rethrows, fetchAllFilePaths goes on
CatchRethrows(fn) == fn = "streamAllFilePaths"

\* variant: no path counts as scanned
NeverScanned(path, scanned) == FALSE

\* scannedPaths.has(node.path)
AlreadyScanned(path, scanned) == path \in scanned

WalkInit ==
    /\ ServerIdle
    /\ ClientIdle
    /\ AppIdle
    /\ walkFn \in Walkers
    /\ walkPc = "loop"
    /\ contents \in Repositories
    /\ initialTree \in RootTrees(contents)
    /\ foldersToScan = initialTree
    /\ scannedPaths = {}
    /\ allPaths = <<>>
    /\ walkNode = <<>>
    /\ listings = <<>>
    /\ progress = <<>>
    /\ walkResult = <<>>

\* the end of one pass of the while loop, from the safety break on: return, or
\* the next pass
EndOfPass(paths, prog) ==
    IF walkFn = "fetchAllFilePaths" /\ ReachedLimit(paths)
    THEN /\ progress' = Append(prog, Progress("Reached 100 files", <<>>))
         /\ walkResult' = Slice(paths, FileLimit)
         /\ walkPc' = "returned"
    ELSE /\ progress' = prog
         /\ walkResult' = walkResult
         /\ walkPc' = "loop"

\* the loop condition fails: return allPaths (the generator is done)
WalkReturns ==
    /\ walkPc = "loop"
    /\ foldersToScan = <<>>
    /\ walkPc' = "returned"
    /\ walkResult' = IF walkFn = "fetchAllFilePaths" THEN allPaths ELSE <<>>
    /\ UNCHANGED <<walkFn, contents, initialTree, foldersToScan, scannedPaths, allPaths,
                   walkNode, listings, progress, serverVars, clientVars, appVars>>

\* one pass of the loop after the setTimeout(0): pop, then continue, push or yield
\* the path of a file, or call fetchFolderContents for a folder
WalkPass ==
    /\ walkPc = "loop"
    /\ foldersToScan # <<>>
    /\ LET node == foldersToScan[Len(foldersToScan)] IN
        /\ foldersToScan' = SubSeq(foldersToScan, 1, Len(foldersToScan) - 1)
        /\ IF AlreadyScanned(node.path, scannedPaths)
           THEN UNCHANGED <<walkPc, scannedPaths, allPaths, walkNode, listings, progress,
                            walkResult>>
           ELSE /\ scannedPaths' = scannedPaths \cup {node.path}
                /\ IF node.type = "file"
                   THEN /\ allPaths' = Append(allPaths, node.path)
                        /\ EndOfPass(allPaths', progress)
                        /\ UNCHANGED <<walkNode, listings>>
                   ELSE /\ progress' = Append(progress, Progress("Scanning directory", node.path))
                        /\ listings' = Append(listings, [path |-> node.path, outcome |-> "pending"])
                        /\ walkNode' = node
                        /\ walkPc' = "listing"
                        /\ UNCHANGED <<allPaths, walkResult>>
    /\ UNCHANGED <<walkFn, contents, initialTree, serverVars, clientVars, appVars>>

\* await fetchFolderContents(...) settles: the children are pushed in reverse, or
\* the catch block runs
ListingSettles ==
    /\ walkPc = "listing"
    /\ \E outcome \in ListingOutcomes :
        /\ listings' = [listings EXCEPT ![Len(listings)].outcome = outcome]
        /\ IF outcome = "ok"
           THEN /\ foldersToScan' =
                       foldersToScan \o Reverse(FolderNodes(contents[walkNode.path]))
                /\ EndOfPass(allPaths, progress)
           ELSE /\ UNCHANGED foldersToScan
                /\ IF CatchRethrows(walkFn)
                   THEN /\ progress' = Append(progress,
                                              Progress("Failed to scan directory", walkNode.path))
                        /\ walkPc' = "thrown"
                        /\ UNCHANGED walkResult
                   ELSE EndOfPass(allPaths,
                                  Append(progress,
                                         Progress("ERROR scanning directory", walkNode.path)))
    /\ UNCHANGED <<walkFn, contents, initialTree, scannedPaths, allPaths, walkNode,
                   serverVars, clientVars, appVars>>

WalkNext ==
    \/ WalkReturns
    \/ WalkPass
    \/ ListingSettles

\* One call of a tree walker on one repository.
SpecWalk == WalkInit /\ [][WalkNext]_vars

\* a walk of one of the small repositories
WalkSmallInit ==
    /\ ServerIdle
    /\ ClientIdle
    /\ AppIdle
    /\ walkFn \in Walkers
    /\ walkPc = "loop"
    /\ contents \in {Repository(1), DuplicatedRepository}
    /\ initialTree \in RootTrees(contents)
    /\ foldersToScan = initialTree
    /\ scannedPaths = {}
    /\ allPaths = <<>>
    /\ walkNode = <<>>
    /\ listings = <<>>
    /\ progress = <<>>
    /\ walkResult = <<>>

\* A walk of a small repository with the event loop running the walker on: the
\* timer of each pass fires and every listing request settles.
SpecWalkFair == WalkSmallInit /\ [][WalkNext]_vars /\ WF_vars(WalkNext)

(***************************************************************************)
(* Properties of the tree walker.                                          *)
(***************************************************************************)
Range(seq) == {seq[i] : i \in DOMAIN seq}

FilePaths(nodes) == {nodes[i].path : i \in {j \in DOMAIN nodes : nodes[j].type = "file"}}

\* the folders the walker has listed successfully
ListedOk == {listings[i].path : i \in {j \in DOMAIN listings : listings[j].outcome = "ok"}}

\* the folders for which the walker has called fetchFolderContents
Requested == {listings[i].path : i \in DOMAIN listings}

\* the files among the starting nodes and in the listings that succeeded
ReachableFiles ==
    FilePaths(initialTree) \cup UNION {FilePaths(FolderNodes(contents[p])) : p \in ListedOk}

\* what the caller of the walker has received
Discovered == IF walkFn = "fetchAllFilePaths" THEN Range(walkResult) ELSE Range(allPaths)

LimitReported == \E i \in DOMAIN progress : progress[i].kind = "Reached 100 files"

FailureReported(path) ==
    \E i \in DOMAIN progress :
        /\ progress[i].kind \in {"ERROR scanning directory", "Failed to scan directory"}
        /\ progress[i].path = path

DiscoverySurvivesFailures ==
    /\ walkPc # "thrown"
    /\ \A i \in DOMAIN listings :
          listings[i].outcome = "failed" => FailureReported(listings[i].path)
    /\ (walkPc = "returned" /\ ~LimitReported) => ReachableFiles \subseteq Discovered

\* C11: a folder whose listing fails never aborts the walk, for fetchAllFilePaths
\* and for streamAllFilePaths: the failure is reported through onProgress, the
\* walk goes on, and, unless the cap was reached, the result holds every file
\* among the starting nodes and in the listings that succeeded.
C11_FailedFolderDoesNotAbort == DiscoverySurvivesFailures

\* the part of C11 that is about fetchAllFilePaths alone
C11_FetchAllFilePathsSurvives ==
    walkFn = "fetchAllFilePaths" => DiscoverySurvivesFailures

\* C12 (walker): the walker calls fetchFolderContents for no starting node whose
\* children are loaded already.
C12_LoadedFolderNotListed ==
    \A i \in DOMAIN initialTree :
        (initialTree[i].type = "folder" /\ initialTree[i].children.loaded)
        => initialTree[i].path \notin Requested

\* C15: fetchAllFilePaths never collects or returns more than 100 paths; when it
\* has returned with 100 paths collected, its last progress message is the
\* 'Reached 100 files' notification, and that notification is given only then.
C15_AtMostHundredPaths ==
    walkFn = "fetchAllFilePaths" =>
        /\ Len(allPaths) <= FileLimit
        /\ Len(walkResult) <= FileLimit
        /\ (walkPc = "returned" /\ Len(allPaths) >= FileLimit) =>
              /\ progress # <<>>
              /\ progress[Len(progress)].kind = "Reached 100 files"
        /\ LimitReported =>
              /\ walkPc = "returned"
              /\ walkResult = allPaths
              /\ Len(walkResult) = FileLimit

\* the walk was cut at 100 files with nodes left to scan
C15_Witness ==
    /\ walkFn = "fetchAllFilePaths"
    /\ walkPc = "returned"
    /\ Len(walkResult) = FileLimit
    /\ foldersToScan # <<>>
    /\ LimitReported

(***************************************************************************)
(* The application state and its reducer.                                  *)
(*   selectedFilePaths   a Set: its members in insertion order             *)
(*   filesForReview      null or a list                                    *)
(*   allFilesWithContent a Map: a function from paths to contents          *)
(*   logs                a list of entries, each a tag and a text          *)
(***************************************************************************)
DefaultRepoUrl == "https://github.com/google/generative-ai-docs"

NoMessage == "<null>"       \* error: null

NoPath == <<0>>             \* currentlyProcessingFile: null

NoFiles == [isNull |-> TRUE, files |-> <<>>]

Files(files) == [isNull |-> FALSE, files |-> files]

LogLimit == 200

Log(tag, text) == [tag |-> tag, text |-> text]

Action(type, payload) == [type |-> type, payload |-> payload]

\* a string or undefined in a condition
Truthy(text) == text \notin {NoError, NoMessage, ""}

initialState ==
    [status |-> "idle",
     repoUrl |-> DefaultRepoUrl,
     githubToken |-> "",
     repoTree |-> <<>>,
     selectedFilePaths |-> <<>>,
     filesForReview |-> NoFiles,
     analysisTasks |-> <<>>,
     allFilesWithContent |-> <<>>,
     currentlyProcessingFile |-> NoPath,
     logs |-> <<>>,
     error |-> NoMessage]

RECURSIVE getAllFilePathsFromTree(_)
getAllFilePathsFromTree(nodes) ==
    IF nodes = <<>> THEN <<>>
    ELSE LET node == Head(nodes)
             here == IF node.type = "file" THEN <<node.path>>
                     ELSE IF node.children.loaded
                     THEN getAllFilePathsFromTree(node.children.nodes)
                     ELSE <<>>
         IN  here \o getAllFilePathsFromTree(Tail(nodes))

\* new Set(list): the members of the list in the order of their first occurrence
RECURSIVE NewSet(_)
NewSet(list) ==
    IF list = <<>> THEN <<>>
    ELSE LET init == NewSet(SubSeq(list, 1, Len(list) - 1))
             last == list[Len(list)]
         IN  IF \E i \in DOMAIN init : init[i] = last THEN init ELSE Append(init, last)

\* findAndInject of EXPAND_FOLDER_SUCCESS: the first folder with that path, in
\* depth-first order, gets the children; the result is whether one was found,
\* with the nodes after the injection
RECURSIVE findAndInject(_, _, _)
findAndInject(nodes, folderPath, children) ==
    IF nodes = <<>> THEN [found |-> FALSE, nodes |-> <<>>]
    ELSE LET node == Head(nodes) IN
         IF node.path = folderPath /\ node.type = "folder"
         THEN [found |-> TRUE,
               nodes |-> <<[node EXCEPT !.children = Children(children)]>> \o Tail(nodes)]
         ELSE LET inner == IF node.type = "folder" /\ node.children.loaded
                           THEN findAndInject(node.children.nodes, folderPath, children)
                           ELSE [found |-> FALSE, nodes |-> <<>>]
                  rest == findAndInject(Tail(nodes), folderPath, children)
              IN  IF inner.found
                  THEN [found |-> TRUE,
                        nodes |-> <<[node EXCEPT !.children = Children(inner.nodes)]>>
                                  \o Tail(nodes)]
                  ELSE [found |-> rest.found, nodes |-> <<node>> \o rest.nodes]

\* list.slice(-n)
SliceLast(list, n) ==
    IF Len(list) <= n THEN list ELSE SubSeq(list, Len(list) - n + 1, Len(list))

\* the title of a task
TaskTitle(id) == id

\* the map function of REPO_ANALYSIS_TASK_END
EndTask(task, payload) ==
    IF task.id # payload.id THEN task
    ELSE [task EXCEPT !.status = IF Truthy(payload.err) THEN "error" ELSE "complete",
                      !.error = IF Truthy(payload.err) THEN payload.err ELSE NoMessage]

\* variant: the failure starts from an empty task list
AnalysisFailureDropsTasks(s, payload) ==
    [s EXCEPT !.status = "repo_loaded", !.error = payload, !.analysisTasks = <<>>]

\* the case REPO_ANALYSIS_FAILURE: { ...state, status, error, analysisTasks: state.analysisTasks }
AnalysisFailure(s, payload) ==
    [s EXCEPT !.status = "repo_loaded", !.error = payload,
              !.analysisTasks = s.analysisTasks]

appReducer(s, action) ==
    LET payload == action.payload
        type == action.type
    IN
    CASE type = "SET_REPO_URL" -> [s EXCEPT !.repoUrl = payload]
      [] type = "SET_GITHUB_TOKEN" -> [s EXCEPT !.githubToken = payload]
      [] type = "FETCH_REPO_START" ->
            [initialState EXCEPT !.repoUrl = s.repoUrl, !.githubToken = s.githubToken,
                                 !.status = "loading_repo", !.logs = <<>>]
      [] type = "FETCH_REPO_SUCCESS" ->
            [s EXCEPT !.status = "repo_loaded", !.repoTree = payload,
                      !.error = IF Len(payload) = 0
                                THEN "No files found in this repository."
                                ELSE NoMessage]
      [] type = "FETCH_REPO_FAILURE" ->
            [s EXCEPT !.status = "error", !.error = payload, !.repoTree = <<>>]
      [] type = "EXPAND_FOLDER_SUCCESS" ->
            [s EXCEPT !.repoTree =
                findAndInject(s.repoTree, payload.folderPath, payload.children).nodes]
      [] type = "TOGGLE_FILE_SELECTION" ->
            [s EXCEPT !.selectedFilePaths =
                IF \E i \in DOMAIN @ : @[i] = payload
                THEN SelectSeq(@, LAMBDA q : q # payload)
                ELSE Append(@, payload)]
      [] type = "SET_ALL_FILES_SELECTED" ->
            [s EXCEPT !.selectedFilePaths =
                IF payload.select THEN NewSet(getAllFilePathsFromTree(payload.nodes))
                ELSE <<>>]
      [] type = "CLEAR_SELECTION" -> [s EXCEPT !.selectedFilePaths = <<>>]
      [] type = "START_FILE_REVIEW" ->
            [s EXCEPT !.status = "fetching_files", !.error = NoMessage]
      [] type = "FETCH_REVIEW_FILES_SUCCESS" ->
            [s EXCEPT !.status = "reviewing_files", !.filesForReview = Files(payload),
                      !.selectedFilePaths = <<>>]
      [] type = "FETCH_REVIEW_FILES_FAILURE" ->
            [s EXCEPT !.status = "error", !.error = payload]
      [] type = "START_REPO_ANALYSIS" ->
            [s EXCEPT !.status = "analyzing_repo", !.analysisTasks = <<>>,
                      !.allFilesWithContent = <<>>, !.error = NoMessage, !.logs = <<>>,
                      !.currentlyProcessingFile = NoPath]
      [] type = "REPO_ANALYSIS_PROCESSING_FILE" ->
            [s EXCEPT !.currentlyProcessingFile = payload.path,
                      !.allFilesWithContent =
                          (payload.path :> [len |-> payload.n, err |-> payload.err]) @@ @]
      [] type = "REPO_ANALYSIS_SYSTEM_EVENT" ->
            [s EXCEPT !.logs = Append(@, Log("[SYSTEM]", payload))]
      [] type = "REPO_ANALYSIS_TASK_START" ->
            [s EXCEPT !.analysisTasks =
                Append(@, [id |-> payload.id, title |-> TaskTitle(payload.id),
                           status |-> "in_progress", content |-> <<>>,
                           error |-> NoMessage])]
      [] type = "REPO_ANALYSIS_TASK_CHUNK" ->
            [s EXCEPT !.analysisTasks =
                [i \in DOMAIN @ |->
                    IF @[i].id = payload.id
                    THEN [@[i] EXCEPT !.content = Append(@, "chunk")]
                    ELSE @[i]]]
      [] type = "REPO_ANALYSIS_TASK_END" ->
            [s EXCEPT !.analysisTasks = [i \in DOMAIN @ |-> EndTask(@[i], payload)]]
      [] type = "REPO_ANALYSIS_COMPLETE" ->
            [s EXCEPT !.status = "repo_loaded", !.currentlyProcessingFile = NoPath]
      [] type = "REPO_ANALYSIS_FAILURE" -> AnalysisFailure(s, payload)
      [] type = "ADD_LOG" -> [s EXCEPT !.logs = SliceLast(Append(@, payload), LogLimit)]
      [] type = "CLEAR_LOGS" -> [s EXCEPT !.logs = <<>>]
      [] type = "RESET" ->
            [initialState EXCEPT !.repoUrl = s.repoUrl, !.githubToken = s.githubToken,
                                 !.logs = <<>>]
      [] OTHER -> s

\* parseGitHubUrl: null, or the owner and the repository the URL names
parseGitHubUrl(url) ==
    IF url = DefaultRepoUrl
    THEN [isNull |-> FALSE, owner |-> "google", repo |-> "generative-ai-docs"]
    ELSE [isNull |-> TRUE, owner |-> "", repo |-> ""]

(***************************************************************************)
(* The file browser: TreeNode.handleToggle and handleExpandFolder.         *)
(***************************************************************************)
MaxExpansions == 3   \* most listing requests sent by handleExpandFolder

IsPrefix(p, q) == Len(p) <= Len(q) /\ SubSeq(q, 1, Len(p)) = p

\* the nodes that have a TreeNode on the screen: the top-level nodes and the
\* children of the folders that are open
RECURSIVE Rendered(_)
Rendered(nodes) ==
    IF nodes = <<>> THEN {}
    ELSE LET node == Head(nodes) IN
         {node}
         \cup (IF node.type = "folder" /\ node.path \in isOpen /\ node.children.loaded
               THEN Rendered(node.children.nodes) ELSE {})
         \cup Rendered(Tail(nodes))

\* the file browser is shown
BrowserShown == state.status # "loading_repo" /\ state.repoTree # <<>>

\* the first line of handleExpandFolder: return without a request
ExpandReturnsEarly(folder) == folder.type # "folder" \/ folder.children # null

\* setIsOpen(false) on a folder: its TreeNode closes and those below it go
Closed(path) == {q \in isOpen : ~IsPrefix(path, q)}

\* the loader of the repository: the debounce timer of the effect, the edits of
\* the token so far, and the requests of handleFetchFiles with their outcomes
NoLoads == [timer |-> FALSE, edits |-> 0, requests |-> <<>>]

TreeInit ==
    /\ ServerIdle
    /\ ClientIdle
    /\ WalkerIdle
    /\ contents = Repository(1)
    /\ state = appReducer(appReducer(initialState, Action("FETCH_REPO_START", <<>>)),
                          Action("FETCH_REPO_SUCCESS", FolderNodes(contents[<<>>])))
    /\ isOpen = {}
    /\ expansions = <<>>
    /\ loads = NoLoads
    /\ runs = <<>>
    /\ review = <<>>
    /\ reviewStates = <<>>
    /\ reviewsStarted = <<>>

\* a click on a folder: handleToggle up to its await, with the call of
\* handleExpandFolder up to its await
handleToggle ==
    /\ BrowserShown
    /\ \E node \in Rendered(state.repoTree) :
        /\ node.type = "folder"
        /\ IF node.path \notin isOpen /\ node.children = null
           THEN IF ExpandReturnsEarly(node) \/ parseGitHubUrl(state.repoUrl).isNull
                THEN /\ isOpen' = isOpen \cup {node.path}
                     /\ UNCHANGED expansions
                ELSE /\ Len(expansions) < MaxExpansions
                     /\ expansions' = Append(expansions,
                                             [path |-> node.path, repoUrl |-> state.repoUrl,
                                              load |-> Len(loads.requests),
                                              outcome |-> "pending"])
                     /\ UNCHANGED isOpen
           ELSE /\ isOpen' = IF node.path \in isOpen THEN Closed(node.path)
                             ELSE isOpen \cup {node.path}
                /\ UNCHANGED expansions
    /\ UNCHANGED <<state, loads, runs, review, reviewStates, reviewsStarted,
                   serverVars, clientVars, walkVars>>

\* await fetchFolderContents(...) of handleExpandFolder settles: dispatch or
\* console.error, then the rest of handleToggle (isOpen was false when it began)
ExpansionSettles ==
    /\ \E k \in DOMAIN expansions :
        /\ expansions[k].outcome = "pending"
        /\ \E outcome \in ListingOutcomes :
            LET path == expansions[k].path IN
            /\ expansions' = [expansions EXCEPT ![k].outcome = outcome]
            /\ state' = IF outcome = "ok"
                        THEN appReducer(state,
                                 Action("EXPAND_FOLDER_SUCCESS",
                                        [folderPath |-> path,
                                         children |-> FolderNodes(contents[path])]))
                        ELSE state
            /\ isOpen' = IF BrowserShown
                            /\ \E node \in Rendered(state.repoTree) : node.path = path
                         THEN isOpen \cup {path}
                         ELSE isOpen
    /\ UNCHANGED <<loads, runs, review, reviewStates, reviewsStarted,
                   serverVars, clientVars, walkVars>>

TreeNext ==
    \/ handleToggle
    \/ ExpansionSettles

\* The file browser of one loaded repository.
SpecTree == TreeInit /\ [][TreeNext]_vars

(***************************************************************************)
(* Properties of the file browser.                                         *)
(***************************************************************************)
\* the folders of a tree whose children are loaded, each with the paths of its children
RECURSIVE LoadedFolders(_)
LoadedFolders(nodes) ==
    IF nodes = <<>> THEN {}
    ELSE LET node == Head(nodes) IN
         (IF node.type = "folder" /\ node.children.loaded
          THEN {<<node.path, [i \in DOMAIN node.children.nodes |-> node.children.nodes[i].path]>>}
               \cup LoadedFolders(node.children.nodes)
          ELSE {})
         \cup LoadedFolders(Tail(nodes))

LoadedPaths(nodes) == {f[1] : f \in LoadedFolders(nodes)}

\* C12 (handleExpandFolder): a request is sent only for a folder whose children
\* are null, and sending it leaves the tree as it is.
C12_ExpandLoadedIsNoOp ==
    [][Len(expansions') > Len(expansions) =>
          /\ expansions'[Len(expansions')].path \notin LoadedPaths(state.repoTree)
          /\ state' = state]_vars

\* C20: in one loaded repository a folder whose children are loaded keeps them,
\* and EXPAND_FOLDER_SUCCESS is applied only to a folder whose children are null.
C20_ChildrenLoadedOnce ==
    [][/\ LoadedPaths(state.repoTree) \subseteq LoadedPaths(state'.repoTree)
       /\ \A k \in DOMAIN expansions :
             (expansions[k].outcome = "pending" /\ expansions'[k].outcome = "ok")
             => expansions[k].path \notin LoadedPaths(state.repoTree)]_vars

(***************************************************************************)
(* The multi-file review: handleStartReview and the effect of CodeReviewer *)
(* that runs when filesForReview changes.                                  *)
(***************************************************************************)
\* what one fetch of handleStartReview settles with: the decoded content (the
\* empty string for an empty file), or a rejection (an HTTP error, content that
\* is not base64 text, a reason that is no Error)
ReviewFetchOutcomes ==
    {[ok |-> TRUE, content |-> c, reason |-> ""] : c \in {"text", ""}}
    \cup {[ok |-> FALSE, content |-> "", reason |-> m] : m \in {"HTTP error", "<non-Error>"}}

Pending == [ok |-> FALSE, content |-> "", reason |-> "<pending>"]

\* result.reason instanceof Error ? result.reason.message : 'An unknown error occurred.'
ReasonMessage(reason) ==
    IF reason = "<non-Error>" THEN "An unknown error occurred." ELSE reason

\* variant: the entry of a failed file carries no error
EntryWithoutError(path, result) ==
    [path |-> path, content |-> result.content, error |-> NoError]

\* the entry results.forEach pushes for one path
ReviewEntry(path, result) ==
    IF result.ok
    THEN [path |-> path, content |-> result.content, error |-> NoError]
    ELSE [path |-> path, content |-> "", error |-> ReasonMessage(result.reason)]

\* the review state the effect sets for one file
InitialReviewState(file) ==
    IF Truthy(file.error)
    THEN [status |-> "error", lintingStatus |-> "idle", error |-> file.error]
    ELSE [status |-> "idle", lintingStatus |-> "idle", error |-> NoMessage]

NoReview == [phase |-> "none", paths |-> <<>>, results |-> <<>>]

\* the root listing with folder 2/ expanded: the files 2/2 and 3 are shown
ExpandedRoot ==
    findAndInject(FolderNodes(Repository(1)[<<>>]), <<2>>,
                  FolderNodes(Repository(1)[<<2>>])).nodes

ReviewInit ==
    /\ ServerIdle
    /\ ClientIdle
    /\ WalkerIdle
    /\ contents = Repository(1)
    /\ state = appReducer(appReducer(initialState, Action("FETCH_REPO_START", <<>>)),
                          Action("FETCH_REPO_SUCCESS", ExpandedRoot))
    /\ isOpen = {<<2>>}
    /\ expansions = <<>>
    /\ loads = <<>>
    /\ runs = <<>>
    /\ review = NoReview
    /\ reviewStates = [files |-> NoFiles, states |-> <<>>]
    /\ reviewsStarted = <<>>

\* the checkbox of a file
onToggleFile ==
    /\ BrowserShown
    /\ \E node \in Rendered(state.repoTree) :
        /\ node.type = "file"
        /\ state' = appReducer(state, Action("TOGGLE_FILE_SELECTION", node.path))
    /\ UNCHANGED <<isOpen, expansions, loads, runs, review, reviewStates, reviewsStarted,
                   serverVars, clientVars, walkVars>>

\* 'Review Selected': handleStartReview up to its await
handleStartReview ==
    /\ state.repoTree # <<>>
    /\ state.status # "fetching_files"
    /\ Len(state.selectedFilePaths) # 0
    /\ IF parseGitHubUrl(state.repoUrl).isNull
       THEN /\ state' = appReducer(state,
                            Action("FETCH_REVIEW_FILES_FAILURE",
                                   "Could not parse repository URL to fetch files."))
            /\ UNCHANGED review
       ELSE /\ state' = appReducer(state, Action("START_FILE_REVIEW", <<>>))
            /\ review' = [phase |-> "fetching",
                          paths |-> state.selectedFilePaths,
                          results |-> [i \in DOMAIN state.selectedFilePaths |-> Pending]]
    /\ UNCHANGED <<isOpen, expansions, loads, runs, reviewStates, reviewsStarted,
                   serverVars, clientVars, walkVars>>

\* one of the fetches settles
ReviewFetchSettles ==
    /\ review.phase = "fetching"
    /\ \E i \in DOMAIN review.results : \E out \in ReviewFetchOutcomes :
        /\ review.results[i] = Pending
        /\ review' = [review EXCEPT !.results[i] = out]
    /\ UNCHANGED <<state, isOpen, expansions, loads, runs, reviewStates, reviewsStarted,
                   serverVars, clientVars, walkVars>>

\* Promise.allSettled resolves: results.forEach, FETCH_REVIEW_FILES_SUCCESS
ReviewAllSettled ==
    /\ review.phase = "fetching"
    /\ \A i \in DOMAIN review.results : review.results[i] # Pending
    /\ state' = appReducer(state,
                    Action("FETCH_REVIEW_FILES_SUCCESS",
                           [i \in DOMAIN review.paths |->
                               ReviewEntry(review.paths[i], review.results[i])]))
    /\ review' = [review EXCEPT !.phase = "dispatched"]
    /\ UNCHANGED <<isOpen, expansions, loads, runs, reviewStates, reviewsStarted,
                   serverVars, clientVars, walkVars>>

\* CodeReviewer is rendered with a new files list: its effect sets the review
\* states and calls runReview for the files without error
CodeReviewerEffect ==
    /\ state.status = "reviewing_files"
    /\ ~state.filesForReview.isNull
    /\ reviewStates.files # state.filesForReview
    /\ LET files == state.filesForReview.files IN
        /\ reviewStates' =
              [files |-> state.filesForReview,
               states |-> [q \in {files[i].path : i \in DOMAIN files} |->
                              InitialReviewState(
                                  files[CHOOSE i \in DOMAIN files :
                                            /\ files[i].path = q
                                            /\ \A j \in DOMAIN files :
                                                  files[j].path = q => j <= i])]]
        /\ reviewsStarted' =
              [i \in DOMAIN SelectSeq(files, LAMBDA f : ~Truthy(f.error)) |->
                  SelectSeq(files, LAMBDA f : ~Truthy(f.error))[i].path]
    /\ UNCHANGED <<state, isOpen, expansions, loads, runs, review,
                   serverVars, clientVars, walkVars>>

ReviewNext ==
    \/ onToggleFile
    \/ handleStartReview
    \/ ReviewFetchSettles
    \/ ReviewAllSettled
    \/ CodeReviewerEffect

\* Selecting files of one loaded repository and reviewing them.
SpecReview == ReviewInit /\ [][ReviewNext]_vars

(***************************************************************************)
(* Properties of the multi-file review.                                    *)
(***************************************************************************)
\* C17: the list handed to the reviewer has one entry per path selected when the
\* review was started, in the order of the selection: the content of a file that
\* was fetched, the empty content and an error message for a file whose fetch
\* failed; and the reviewer starts a review for exactly the entries without error.
C17_OneEntryPerSelectedPath ==
    /\ review.phase = "dispatched" =>
          LET files == state.filesForReview.files IN
          /\ ~state.filesForReview.isNull
          /\ Len(files) = Len(review.paths)
          /\ \A i \in DOMAIN files :
                /\ files[i].path = review.paths[i]
                /\ IF review.results[i].ok
                   THEN files[i].content = review.results[i].content
                        /\ ~Truthy(files[i].error)
                   ELSE files[i].content = "" /\ Truthy(files[i].error)
          /\ \A i, j \in DOMAIN files : files[i].path = files[j].path => i = j
    /\ (review.phase = "dispatched" /\ reviewStates.files = state.filesForReview) =>
          /\ reviewsStarted =
                [i \in DOMAIN SelectSeq(review.results, LAMBDA r : r.ok) |->
                    SelectSeq([k \in DOMAIN review.paths |->
                                  [path |-> review.paths[k], ok |-> review.results[k].ok]],
                              LAMBDA e : e.ok)[i].path]
          /\ \A i \in DOMAIN review.paths :
                reviewStates.states[review.paths[i]].status =
                    IF review.results[i].ok THEN "idle" ELSE "error"

\* two files were selected, the fetch of the first failed, and the reviewer has
\* started the review of the second only
C17_Witness ==
    /\ review.phase = "dispatched"
    /\ reviewStates.files = state.filesForReview
    /\ Len(review.paths) = 2
    /\ ~review.results[1].ok /\ review.results[2].ok
    /\ reviewsStarted = <<review.paths[2]>>
    /\ reviewStates.states[review.paths[1]].status = "error"

(***************************************************************************)
(* The repository analysis in the client: handleStartRepoAnalysis consumes *)
(* the event stream of one request and dispatches an action per event,     *)
(* while the debounced effect reloads the repository after an edit of the  *)
(* token.                                                                  *)
(***************************************************************************)
\* the analyses started in one run
MaxRuns == 2

\* the edits of the token in one run
MaxReloads == 1

\* the chunks of one task
MaxTaskChunks == 1

\* the tasks one stream gets to before it ends
MaxStreamTasks == 2

AnalysisInit ==
    /\ ServerIdle
    /\ ClientIdle
    /\ WalkerIdle
    /\ contents = Repository(1)
    /\ state = appReducer(appReducer(initialState, Action("FETCH_REPO_START", <<>>)),
                          Action("FETCH_REPO_SUCCESS", FolderNodes(Repository(1)[<<>>])))
    /\ isOpen = {}
    /\ expansions = <<>>
    /\ loads = NoLoads
    /\ runs = <<>>
    /\ review = <<>>
    /\ reviewStates = <<>>
    /\ reviewsStarted = <<>>

\* the token field is edited: SET_GITHUB_TOKEN, and the effect sets its timer anew
setGithubToken ==
    /\ loads.edits < MaxReloads
    /\ \E token \in {"", "token"} :
        /\ token # state.githubToken
        /\ state' = appReducer(state, Action("SET_GITHUB_TOKEN", token))
    /\ loads' = [loads EXCEPT !.timer = TRUE, !.edits = @ + 1]
    /\ UNCHANGED <<isOpen, expansions, runs, review, reviewStates, reviewsStarted,
                   serverVars, clientVars, walkVars>>

\* the 500 ms have passed: handleFetchFiles up to its await
handleFetchFiles ==
    /\ loads.timer
    /\ IF parseGitHubUrl(state.repoUrl).isNull
       THEN /\ state' = appReducer(state,
                            Action("FETCH_REPO_FAILURE",
                                   "Please enter a valid GitHub repository URL."))
            /\ loads' = [loads EXCEPT !.timer = FALSE]
       ELSE /\ state' = appReducer(state, Action("FETCH_REPO_START", <<>>))
            /\ loads' = [loads EXCEPT !.timer = FALSE, !.requests = Append(@, "pending")]
    /\ isOpen' = {}
    /\ UNCHANGED <<expansions, runs, review, reviewStates, reviewsStarted,
                   serverVars, clientVars, walkVars>>

\* fetchRepoRoot of one of the requests settles
FetchRepoSettles ==
    /\ \E k \in DOMAIN loads.requests :
        /\ loads.requests[k] = "pending"
        /\ \/ /\ state' = appReducer(state,
                              Action("FETCH_REPO_SUCCESS", FolderNodes(contents[<<>>])))
              /\ loads' = [loads EXCEPT !.requests[k] = "ok"]
              /\ UNCHANGED isOpen
           \/ /\ state' = appReducer(state, Action("FETCH_REPO_FAILURE", "Failed to fetch"))
              /\ loads' = [loads EXCEPT !.requests[k] = "failed"]
              /\ isOpen' = {}
    /\ UNCHANGED <<expansions, runs, review, reviewStates, reviewsStarted,
                   serverVars, clientVars, walkVars>>

\* 'Analyze Entire Repository': handleStartRepoAnalysis up to its first await
handleStartRepoAnalysis ==
    /\ Len(runs) < MaxRuns
    /\ state.status \notin {"loading_repo", "analyzing_repo"}
    /\ state.repoTree # <<>>
    /\ state.repoUrl # ""
    /\ LET s1 == appReducer(state, Action("START_REPO_ANALYSIS", <<>>))
           s2 == appReducer(s1, Action("ADD_LOG", Log("[SYSTEM]", "Initiating analysis...")))
       IN  IF parseGitHubUrl(state.repoUrl).isNull
           THEN /\ state' = appReducer(
                               appReducer(s2, Action("ADD_LOG", Log("[ERROR]", "Invalid GitHub URL"))),
                               Action("REPO_ANALYSIS_FAILURE", "Invalid GitHub URL"))
                /\ runs' = Append(runs, [phase |-> "failed", t |-> 1, inTask |-> FALSE,
                                         chunks |-> 0])
           ELSE /\ state' = appReducer(s2, Action("ADD_LOG",
                                Log("[SYSTEM]", "Starting recursive file path discovery...")))
                /\ runs' = Append(runs, [phase |-> "walking", t |-> 1, inTask |-> FALSE,
                                         chunks |-> 0])
    /\ UNCHANGED <<isOpen, expansions, loads, review, reviewStates, reviewsStarted,
                   serverVars, clientVars, walkVars>>

\* fetchAllFilePaths has returned: the log line, and the request is sent
PathsFound ==
    /\ \E k \in DOMAIN runs :
        /\ runs[k].phase = "walking"
        /\ state' = appReducer(state, Action("ADD_LOG", Log("[SYSTEM]", "Found files")))
        /\ runs' = [runs EXCEPT ![k].phase = "system"]
    /\ UNCHANGED <<isOpen, expansions, loads, review, reviewStates, reviewsStarted,
                   serverVars, clientVars, walkVars>>

\* the action the switch of the for-await loop dispatches for one event
EventAction(event) ==
    CASE event.type = "system" -> Action("REPO_ANALYSIS_SYSTEM_EVENT", event.id)
      [] event.type = "processing_file" -> Action("REPO_ANALYSIS_PROCESSING_FILE", event)
      [] event.type = "task_start" -> Action("REPO_ANALYSIS_TASK_START", event)
      [] event.type = "task_chunk" -> Action("REPO_ANALYSIS_TASK_CHUNK", event)
      [] event.type = "task_end" -> Action("REPO_ANALYSIS_TASK_END", event)
      [] event.type = "error" ->
            Action("ADD_LOG", Log("[ERROR] Analysis step failed:", event.err))
      [] OTHER -> Action("<none>", <<>>)

\* the events the stream of a run can deliver next, in the order of the producer,
\* each with the position of the run after it
NextEvents(run) ==
    CASE run.phase = "system" ->
            {[event |-> SystemEvent("Backend connection established.", 0),
              run |-> [run EXCEPT !.phase = "files"]]}
      [] run.phase = "files" ->
            {[event |-> ProcessingFile(<<3>>, 1, NoError),
              run |-> [run EXCEPT !.phase = "tasks"]]}
      [] run.phase = "tasks" /\ ~run.inTask ->
            {[event |-> TaskStart(tasks[run.t]),
              run |-> [run EXCEPT !.inTask = TRUE, !.chunks = 0]]}
      [] run.phase = "tasks" /\ run.inTask ->
            {[event |-> TaskChunk(tasks[run.t]),
              run |-> [run EXCEPT !.chunks = @ + 1]] : n \in {i \in {1} : run.chunks < MaxTaskChunks}}
            \cup {[event |-> TaskEnd(tasks[run.t], NoError),
                   run |-> IF run.t = MaxStreamTasks
                           THEN [run EXCEPT !.phase = "ending", !.inTask = FALSE]
                           ELSE [run EXCEPT !.t = @ + 1, !.inTask = FALSE]],
                  [event |-> TaskEnd(tasks[run.t], "engine error"),
                   run |-> [run EXCEPT !.phase = "fatal", !.inTask = FALSE]],
                  [event |-> TaskEnd(tasks[run.t], ""),
                   run |-> [run EXCEPT !.phase = "fatal", !.inTask = FALSE]]}
      [] run.phase = "fatal" ->
            {[event |-> ErrorEvent("A fatal error occurred: engine error"),
              run |-> [run EXCEPT !.phase = "ending"]]}
      [] OTHER -> {}

\* one pass of the for-await loop of a run
StreamEvent ==
    /\ \E k \in DOMAIN runs : \E next \in NextEvents(runs[k]) :
        /\ state' = appReducer(state, EventAction(next.event))
        /\ runs' = [runs EXCEPT ![k] = next.run]
    /\ UNCHANGED <<isOpen, expansions, loads, review, reviewStates, reviewsStarted,
                   serverVars, clientVars, walkVars>>

\* the stream of a run is done: REPO_ANALYSIS_COMPLETE
StreamDone ==
    /\ \E k \in DOMAIN runs :
        /\ runs[k].phase = "ending"
        /\ state' = appReducer(state, Action("REPO_ANALYSIS_COMPLETE", <<>>))
        /\ runs' = [runs EXCEPT ![k].phase = "done"]
    /\ UNCHANGED <<isOpen, expansions, loads, review, reviewStates, reviewsStarted,
                   serverVars, clientVars, walkVars>>

\* the request or the read of a run throws: the catch block
StreamThrows ==
    /\ \E k \in DOMAIN runs :
        /\ runs[k].phase \in {"system", "files", "tasks", "fatal", "ending"}
        /\ state' = appReducer(
                        appReducer(state, Action("ADD_LOG", Log("[ERROR]", "Failed to fetch"))),
                        Action("REPO_ANALYSIS_FAILURE", "Failed to fetch"))
        /\ runs' = [runs EXCEPT ![k].phase = "failed"]
    /\ UNCHANGED <<isOpen, expansions, loads, review, reviewStates, reviewsStarted,
                   serverVars, clientVars, walkVars>>

AnalysisNext ==
    \/ setGithubToken
    \/ handleFetchFiles
    \/ FetchRepoSettles
    \/ handleStartRepoAnalysis
    \/ PathsFound
    \/ StreamEvent
    \/ StreamDone
    \/ StreamThrows

\* Analyses of one repository, with reloads between and during them.
SpecAnalysis == AnalysisInit /\ [][AnalysisNext]_vars

(***************************************************************************)
(* Properties of the task list.                                            *)
(***************************************************************************)
\* C19: analysisTasks never holds two records with the same task id, also when a
\* second analysis is started after a reload while the stream of the first is
\* still consumed.
C19_OneRecordPerTaskId ==
    \A i, j \in DOMAIN state.analysisTasks :
        state.analysisTasks[i].id = state.analysisTasks[j].id => i = j

\* C18: in every step that keeps the records of the task list, a record that is
\* complete or error keeps its status (a record only moves from in_progress to
\* complete or to error).
C18_TerminalStatusKept ==
    [][Len(state'.analysisTasks) >= Len(state.analysisTasks) =>
          \A i \in DOMAIN state.analysisTasks :
              state.analysisTasks[i].status \in {"complete", "error"} =>
                  state'.analysisTasks[i].status = state.analysisTasks[i].status]_vars

\* the same with a single analysis: no record changes its status after it is
\* complete or error
C18_SingleRunTerminalStatusKept ==
    [][Len(runs') <= 1 /\ Len(state'.analysisTasks) >= Len(state.analysisTasks) =>
          \A i \in DOMAIN state.analysisTasks :
              state.analysisTasks[i].status \in {"complete", "error"} =>
                  state'.analysisTasks[i].status = state.analysisTasks[i].status]_vars

\* C21: REPO_ANALYSIS_FAILURE leaves analysisTasks, logs and the map of fetched
\* files as they are: in the step of the catch block the task records and the
\* map are unchanged and the logs are those after the ADD_LOG dispatched before
\* it, and the action applied to any reachable state changes none of the three.
C21_FailureKeepsPartialResults ==
    [][/\ LET s2 == appReducer(state, Action("REPO_ANALYSIS_FAILURE", "Failed to fetch"))
          IN  /\ s2.analysisTasks = state.analysisTasks
              /\ s2.logs = state.logs
              /\ s2.allFilesWithContent = state.allFilesWithContent
       /\ (\E k \in DOMAIN runs : runs[k].phase # "failed" /\ runs'[k].phase = "failed")
          => /\ state'.analysisTasks = state.analysisTasks
             /\ state'.allFilesWithContent = state.allFilesWithContent
             /\ state'.logs =
                   appReducer(state, Action("ADD_LOG", Log("[ERROR]", "Failed to fetch"))).logs
             /\ state'.status = "repo_loaded"
             /\ state'.error = "Failed to fetch"]_vars

\* the only analysis has failed in the middle of its second task: the first
\* record is complete and the second in progress with its chunk
C21_Witness ==
    /\ Len(runs) = 1
    /\ runs[1].phase = "failed"
    /\ state.error = "Failed to fetch"
    /\ Len(state.analysisTasks) = 2
    /\ state.analysisTasks[1].status = "complete"
    /\ state.analysisTasks[2].status = "in_progress"
    /\ state.analysisTasks[2].content # <<>>
    /\ state.allFilesWithContent # <<>>

\* C22: when the only analysis has finished (REPO_ANALYSIS_COMPLETE or
\* REPO_ANALYSIS_FAILURE was dispatched), no task record is in_progress.
C22_NoTaskLeftInProgress ==
    (Len(runs) = 1 /\ runs[1].phase \in {"done", "failed"})
    => \A i \in DOMAIN state.analysisTasks :
          state.analysisTasks[i].status # "in_progress"

\* C23: in the step that delivers the task_end of a task whose engine call
\* failed, the records of that task get the status error, and in the step that
\* delivers the task_end of a completed task they get the status complete.
C23_StatusAgreesWithOutcome ==
    [][\A k \in DOMAIN runs :
          (k \in DOMAIN runs' /\ runs[k].phase = "tasks" /\ runs[k].inTask /\ ~runs'[k].inTask)
          => \A i \in DOMAIN state'.analysisTasks :
                state'.analysisTasks[i].id = tasks[runs[k].t]
                => state'.analysisTasks[i].status =
                      IF runs'[k].phase = "fatal" THEN "error" ELSE "complete"]_vars

\* C25: after FETCH_REPO_START, while the repository is loading, the events of
\* an analysis stream started earlier do not change the state: a step that is
\* not a step of the loader leaves the status loading_repo and the task list
\* empty.
C25_StaleStreamIgnored ==
    [][(state.status = "loading_repo" /\ loads' = loads)
       => /\ state'.status = "loading_repo"
          /\ state'.analysisTasks = <<>>]_vars

(***************************************************************************)
(* Further properties of the producer.                                     *)
(***************************************************************************)
\* C24: the producer sends 'Could not fetch content for any files' only when no
\* fetch has succeeded; when at least one file was fetched, also an empty one,
\* the task sequence is started.
C24_AbortOnlyWhenNothingFetched ==
    (\E i \in DOMAIN res.sent :
        res.sent[i] = SystemEvent("Could not fetch content for any files", 0))
    => \A j \in DOMAIN fetchLog : ~fetchLog[j].ok

\* C28: once the response has been ended, no further event is handed to
\* res.write.
C28_NoWriteAfterEnd ==
    [][res.writableEnded => res'.sent = res.sent]_vars

(***************************************************************************)
(* The log of one analysis: the progress messages of the walker are        *)
(* dispatched as ADD_LOG, the system events of the stream as               *)
(* REPO_ANALYSIS_SYSTEM_EVENT.                                             *)
(***************************************************************************)
\* the state right after 'Analyze Entire Repository' was clicked on the loaded
\* repository: the walker is running
LogsInit ==
    /\ ServerIdle
    /\ ClientIdle
    /\ WalkerIdle
    /\ contents = Repository(1)
    /\ state =
          appReducer(
            appReducer(
              appReducer(
                appReducer(appReducer(initialState, Action("FETCH_REPO_START", <<>>)),
                           Action("FETCH_REPO_SUCCESS", FolderNodes(Repository(1)[<<>>]))),
                Action("START_REPO_ANALYSIS", <<>>)),
              Action("ADD_LOG", Log("[SYSTEM]", "Initiating analysis..."))),
            Action("ADD_LOG", Log("[SYSTEM]", "Starting recursive file path discovery...")))
    /\ isOpen = {}
    /\ expansions = <<>>
    /\ loads = NoLoads
    /\ runs = <<[phase |-> "walking", t |-> 1, inTask |-> FALSE, chunks |-> 0]>>
    /\ review = <<>>
    /\ reviewStates = <<>>
    /\ reviewsStarted = <<>>

\* the walker reports a directory: onProgress dispatches ADD_LOG
onProgress ==
    /\ \E k \in DOMAIN runs :
        /\ runs[k].phase = "walking"
        /\ state' = appReducer(state, Action("ADD_LOG", Log("Scanning directory", "")))
    /\ UNCHANGED <<isOpen, expansions, loads, runs, review, reviewStates, reviewsStarted,
                   serverVars, clientVars, walkVars>>

LogsNext ==
    \/ onProgress
    \/ PathsFound
    \/ StreamEvent
    \/ StreamDone
    \/ StreamThrows

\* One analysis of a repository with any number of directories.
SpecLogs == LogsInit /\ [][LogsNext]_vars

\* C29: state.logs never holds more than 200 entries.
C29_LogsBounded == Len(state.logs) <= LogLimit

(***************************************************************************)
(* Loading the repository: the effect that runs when the application is    *)
(* mounted and after every edit of the token, together with the file       *)
(* browser.                                                                *)
(***************************************************************************)
\* the application has just been mounted: the effect has set its timer
LoadInit ==
    /\ ServerIdle
    /\ ClientIdle
    /\ WalkerIdle
    /\ contents = Repository(1)
    /\ state = initialState
    /\ isOpen = {}
    /\ expansions = <<>>
    /\ loads = [NoLoads EXCEPT !.timer = TRUE]
    /\ runs = <<>>
    /\ review = <<>>
    /\ reviewStates = <<>>
    /\ reviewsStarted = <<>>

LoadNext ==
    \/ setGithubToken
    \/ handleFetchFiles
    \/ FetchRepoSettles
    \/ handleToggle
    \/ ExpansionSettles

\* Loading and reloading one repository while its folders are expanded.
SpecLoad == LoadInit /\ [][LoadNext]_vars

\* C26: when no request of the loader is pending any more, the state holds the
\* result of the request made last: its tree and repo_loaded, or the empty tree
\* and error.
C26_LastRequestWins ==
    (/\ ~loads.timer
     /\ loads.requests # <<>>
     /\ \A k \in DOMAIN loads.requests : loads.requests[k] # "pending")
    => IF loads.requests[Len(loads.requests)] = "ok"
       THEN state.status = "repo_loaded" /\ state.repoTree # <<>>
       ELSE state.status = "error" /\ state.repoTree = <<>>

\* C27: a folder listing that was requested before the latest start of a reload
\* does not change the tree when it arrives.
C27_StaleListingNotInjected ==
    [][\A k \in DOMAIN expansions :
          (/\ expansions[k].outcome = "pending"
           /\ expansions'[k].outcome = "ok"
           /\ expansions[k].load < Len(loads.requests))
          => state'.repoTree = state.repoTree]_vars

(***************************************************************************)
(* Further properties of the tree walker.                                  *)
(***************************************************************************)
\* no element occurs twice
NoRepeats(seq) == \A i, j \in DOMAIN seq : seq[i] = seq[j] => i = j

\* the walk is over, and fetchAllFilePaths has requested no listing twice and
\* collected and returned no path twice
WalkEndedWithoutRepeats ==
    /\ walkPc \in {"returned", "thrown"}
    /\ walkFn = "fetchAllFilePaths"
       => /\ NoRepeats([i \in DOMAIN listings |-> listings[i].path])
          /\ NoRepeats(allPaths)
          /\ NoRepeats(walkResult)

====
